---- MODULE Spec2Model ----
(***************************************************************************)
(* Model of cmd/rpcfuzz/rpcfuzz.go: the validator strategies, the chain    *)
(* combinator, the generic test case and the RunE loop that runs the       *)
(* registry against an RPC endpoint.                                       *)
(*                                                                         *)
(* A Go interface{} value is a record [t, v]: t is its dynamic type and v  *)
(* its payload written the way %v prints it.  A Go error is such a value   *)
(* whose dynamic type implements error; the nil interface is Nil.          *)
(* A validator closure is a record holding the closed-over parameters;     *)
(* the operator named after its factory is the body of the closure.        *)
(***************************************************************************)
EXTENDS Integers, Sequences, FiniteSets, TLC

\* ---- bounds of the model ------------------------------------------------
MaxCases == 2      \* longest registry
MaxChain == 2      \* longest validator list given to ChainValidator
MaxArgs  == 2      \* most positional CLI arguments tried

\* ---- interface{} values -------------------------------------------------
Nil       == [t |-> "nil",     v |-> "<nil>"]
BoolTrue  == [t |-> "bool",    v |-> "true"]
BoolFalse == [t |-> "bool",    v |-> "false"]
StrTrue   == [t |-> "string",  v |-> "true"]
StrFalse  == [t |-> "string",  v |-> "false"]
StrHex    == [t |-> "string",  v |-> "0x1a"]
StrNoHex  == [t |-> "string",  v |-> "1a"]
Num42     == [t |-> "float64", v |-> "42"]
Obj       == [t |-> "map[string]interface {}", v |-> "map[]"]

\* errors: a JSON-RPC error object, and an error of a type encoding/json
\* cannot encode (error is an open interface)
HexMsg    == "invalid argument 0: json: cannot unmarshal hex string without 0x prefix"
NoMethMsg == "the method eth_protocolVersion does not exist/is not available"
ErrHex    == [t |-> "*rpc.jsonError", v |-> HexMsg]
ErrNoMeth == [t |-> "*rpc.jsonError", v |-> NoMethMsg]
ErrOpaque == [t |-> "opaqueError",    v |-> "connection refused"]

\* what json.Unmarshal into an interface{} can produce
Results == {Nil, BoolTrue, BoolFalse, StrHex, StrNoHex, Obj}
\* what CallContext can return as its error
Errors  == {ErrHex, ErrOpaque}
\* what a validator can be handed by any caller
Values  == Results \cup Errors \cup {StrTrue, StrFalse, Num42, ErrNoMeth}

ErrorTypes == {"*rpc.jsonError", "opaqueError", "*fmt.wrapError", "*errors.errorString"}

\* fmt.Errorf(format, a, b): a new error value
Errorf(format, a, b) ==
    [t |-> "*fmt.wrapError", v |-> format, a |-> a, b |-> b]

\* result.(error): does the dynamic type implement error
IsError(x) == x.t \in ErrorTypes

\* %v of a value
Fmt(x) == x.v

\* ---- regexp ---------------------------------------------------------------
ReHex     == "^0x[0-9a-f]+$"
ReHexMsg  == "cannot unmarshal hex string without 0x prefix"
ReNoMeth  == "method eth_protocolVersion does not exist"

\* regexp.MatchString, tabulated over the strings of the model
MatchString(regEx, s) ==
    CASE regEx = ReHex    -> s \in {"0x1a"}
      [] regEx = ReHexMsg -> s \in {HexMsg}
      [] regEx = ReNoMeth -> s \in {NoMethMsg}
      [] OTHER            -> FALSE

\* ---- encoding/json and gojsonschema ---------------------------------------
Quote(s) == "\"" \o s \o "\""

\* json.Marshal(result): [err, text]
Marshal(x) ==
    CASE x.t = "nil"     -> [err |-> Nil, text |-> "null"]
      [] x.t = "bool"    -> [err |-> Nil, text |-> x.v]
      [] x.t = "float64" -> [err |-> Nil, text |-> x.v]
      [] x.t = "string"  -> [err |-> Nil, text |-> Quote(x.v)]
      [] x.t = "map[string]interface {}" -> [err |-> Nil, text |-> "{}"]
      [] x.t = "*rpc.jsonError" ->
            [err |-> Nil, text |-> "{\"code\":-32602,\"message\":" \o Quote(x.v) \o "}"]
      [] OTHER ->
            [err |-> [t |-> "*json.UnsupportedTypeError", v |-> "json: unsupported type"],
             text |-> ""]

SchemaBoolean   == "{\"type\":\"boolean\"}"
SchemaObject    == "{\"type\":\"object\"}"
SchemaMalformed == "{\"type\":"

\* the JSON type of a document text
JSONType(text) ==
    CASE text \in {"true", "false"}                 -> "boolean"
      [] text = "null"                              -> "null"
      [] text \in {"42"}                            -> "number"
      [] text \in {Quote(x.v) : x \in {y \in Values : y.t = "string"}} -> "string"
      [] OTHER                                      -> "object"

\* gojsonschema.Validate(schemaLoader, documentLoader): [err, valid, errors]
SchemaValidate(schema, text) ==
    CASE schema = SchemaBoolean ->
           [err |-> Nil, valid |-> JSONType(text) = "boolean",
            errors |-> "(root): Invalid type. Expected: boolean, given: " \o JSONType(text)]
      [] schema = SchemaObject ->
           [err |-> Nil, valid |-> JSONType(text) = "object",
            errors |-> "(root): Invalid type. Expected: object, given: " \o JSONType(text)]
      [] OTHER ->
           [err |-> [t |-> "*errors.errorString", v |-> "unexpected EOF"],
            valid |-> FALSE, errors |-> ""]

\* ---- validator strategies (bodies of the returned closures) ----------------
\* a comparison that ignores the dynamic type of the two values
ValidateExactCoerce(expected, result) ==
    IF Fmt(expected) # Fmt(result)
    THEN Errorf("Expected %v and got %v", Fmt(expected), Fmt(result))
    ELSE Nil

ValidateExact(expected, result) ==
    IF expected # result
    THEN Errorf("Expected %v and got %v", Fmt(expected), Fmt(result))
    ELSE Nil

ValidateRegexString(regEx, result) ==
    IF result.t # "string"
    THEN Errorf("Invalid result type. Expected string but got %T", result.t, "")
    ELSE IF ~MatchString(regEx, result.v)
    THEN Errorf("The regex %s failed to match result %s", regEx, result.v)
    ELSE Nil

ValidateError(errorMessageRegex, result) ==
    IF ~IsError(result)
    THEN Errorf("Invalid result type. Expected error but got %T", result.t, "")
    ELSE IF ~MatchString(errorMessageRegex, result.v)
    THEN Errorf("The regex %s failed to match result %s", errorMessageRegex, result.v)
    ELSE Nil

\* a schema validator that lets a failure to run the validation pass
ValidateJSONSchemaSwallow(schema, result) ==
    LET m == Marshal(result)
        r == SchemaValidate(schema, m.text)
    IN  IF m.err # Nil \/ r.err # Nil THEN Nil
        ELSE IF ~r.valid
        THEN Errorf("The json document is not valid: %s", r.errors, "")
        ELSE Nil

ValidateJSONSchema(schema, result) ==
    LET m == Marshal(result)
        r == SchemaValidate(schema, m.text)
    IN  IF m.err # Nil
        THEN Errorf("Unable to marshal result back to json for validation: %w", m.err.v, "")
        ELSE IF r.err # Nil
        THEN Errorf("Unable to run json validation: %w", r.err.v, "")
        ELSE IF ~r.valid
        THEN Errorf("The json document is not valid: %s", r.errors, "")
        ELSE Nil

\* closures: the factory's parameters, captured
NoValidators == <<>>
MkExact(expected) ==
    [kind |-> "ValidateExact", expected |-> expected, regEx |-> "", schema |-> "",
     validators |-> NoValidators]
MkRegexString(regEx) ==
    [kind |-> "ValidateRegexString", expected |-> Nil, regEx |-> regEx, schema |-> "",
     validators |-> NoValidators]
MkError(regEx) ==
    [kind |-> "ValidateError", expected |-> Nil, regEx |-> regEx, schema |-> "",
     validators |-> NoValidators]
MkJSONSchema(schema) ==
    [kind |-> "ValidateJSONSchema", expected |-> Nil, regEx |-> "", schema |-> schema,
     validators |-> NoValidators]
MkChain(validators) ==
    [kind |-> "ChainValidator", expected |-> Nil, regEx |-> "", schema |-> "",
     validators |-> validators]

\* v(result) for a strategy closure v
CallStrategy(v, result) ==
    CASE v.kind = "ValidateExact"       -> ValidateExact(v.expected, result)
      [] v.kind = "ValidateRegexString" -> ValidateRegexString(v.regEx, result)
      [] v.kind = "ValidateError"       -> ValidateError(v.regEx, result)
      [] v.kind = "ValidateJSONSchema"  -> ValidateJSONSchema(v.schema, result)

\* ---- chain combinator -------------------------------------------------------
\* The range loop of the closure ChainValidator returns, from member i on.
\* trace lists the members invoked so far, each with what it returned.
RECURSIVE ChainLoopNoShortCircuit(_, _, _, _, _)
ChainLoopNoShortCircuit(validators, i, result, trace, ok) ==
    IF i > Len(validators)
    THEN [err |-> IF ok THEN Nil ELSE Errorf("All Validation failed", "", ""),
          trace |-> trace]
    ELSE LET err == CallStrategy(validators[i], result)
         IN  ChainLoopNoShortCircuit(validators, i + 1, result,
                 Append(trace, [member |-> i, err |-> err]), ok \/ err = Nil)

RECURSIVE ChainLoopLastError(_, _, _, _)
ChainLoopLastError(validators, i, result, trace) ==
    IF i > Len(validators)
    THEN [err |-> IF trace = <<>> THEN Errorf("All Validation failed", "", "")
                  ELSE trace[Len(trace)].err,
          trace |-> trace]
    ELSE LET err == CallStrategy(validators[i], result)
             tr  == Append(trace, [member |-> i, err |-> err])
         IN  IF err = Nil THEN [err |-> Nil, trace |-> tr]
             ELSE ChainLoopLastError(validators, i + 1, result, tr)

RECURSIVE ChainLoop(_, _, _, _)
ChainLoop(validators, i, result, trace) ==
    IF i > Len(validators)
    THEN [err |-> Errorf("All Validation failed", "", ""), trace |-> trace]
    ELSE LET err == CallStrategy(validators[i], result)
             tr  == Append(trace, [member |-> i, err |-> err])
         IN  IF err = Nil THEN [err |-> Nil, trace |-> tr]
             ELSE ChainLoop(validators, i + 1, result, tr)

ChainValidatorExhaustive(validators, result) ==
    ChainLoopNoShortCircuit(validators, 1, result, <<>>, FALSE)

ChainValidatorLastError(validators, result) ==
    ChainLoopLastError(validators, 1, result, <<>>)

ChainValidator(validators, result) == ChainLoop(validators, 1, result, <<>>)

\* v(result) for any validator closure: [err, trace]
CallValidator(v, result) ==
    IF v.kind = "ChainValidator"
    THEN ChainValidator(v.validators, result)
    ELSE [err |-> CallStrategy(v, result), trace |-> <<>>]

\* ---- test cases --------------------------------------------------------------
\* RPCTestGeneric values
RPCTestNetListening ==
    [Method |-> "net_listening", Args |-> <<>>,
     Validator |-> MkExact(BoolTrue), IsError |-> FALSE]
RPCTestWeb3SHA3Error ==
    [Method |-> "web3_sha3", Args |-> <<"68656c6c6f20776f726c64">>,
     Validator |-> MkError(ReHexMsg), IsError |-> TRUE]
RPCTestNetPeerCount ==
    [Method |-> "net_peerCount", Args |-> <<>>,
     Validator |-> MkRegexString(ReHex), IsError |-> FALSE]
RPCTestEthSyncing ==
    [Method |-> "eth_syncing", Args |-> <<>>,
     Validator |-> MkChain(<<MkExact(BoolFalse), MkJSONSchema(SchemaObject)>>),
     IsError |-> FALSE]
\* a case whose schema document does not parse
RPCTestBadSchema ==
    [Method |-> "eth_accounts", Args |-> <<>>,
     Validator |-> MkJSONSchema(SchemaMalformed), IsError |-> FALSE]
\* a case that expects an error and checks its shape with a schema
RPCTestErrorSchema ==
    [Method |-> "eth_protocolVersion", Args |-> <<>>,
     Validator |-> MkJSONSchema(SchemaObject), IsError |-> TRUE]

TestCases == {RPCTestNetListening, RPCTestWeb3SHA3Error, RPCTestNetPeerCount,
              RPCTestEthSyncing, RPCTestBadSchema, RPCTestErrorSchema}

RECURSIVE SeqsUpTo(_, _)
SeqsUpTo(S, n) ==
    IF n = 0 THEN {<<>>}
    ELSE LET shorter == SeqsUpTo(S, n - 1)
         IN  shorter \cup {Append(q, e) : q \in shorter, e \in S}

\* the catalogs setupTests may append
Catalogs == SeqsUpTo(TestCases, MaxCases)

GetMethod(r) == r.Method
GetArgs(r) == r.Args
ExpectError(r) == r.IsError
\* r.Validator(result): [err, trace]
Validate(r, result) == CallValidator(r.Validator, result)

\* ---- the RPC endpoint -------------------------------------------------------
\* rpcClient.CallContext(cxt, &result, method, args...): a decoded result and a
\* nil error, or an error and result left untouched
CallReturns ==
    {[result |-> r, err |-> Nil] : r \in Results} \cup
    {[result |-> Nil, err |-> e] : e \in Errors}

\* ---- state ------------------------------------------------------------------
VARIABLES
    pc,        \* position in Args / RunE, or in a direct validator call
    catalog,   \* the test cases setupTests appends
    allTests,  \* the package-level registry
    idx,       \* position of the range loop over allTests
    result,    \* RunE's result variable of the current iteration
    err,       \* RunE's err variable
    ret,       \* what the command returned
    calls,     \* the RPC calls issued, in order
    invoked,   \* the Validate calls made, in order
    logs,      \* the verdict lines written, in order
    setups,    \* how many times setupTests ran
    vfn,       \* direct call: the validator closure
    vobs,      \* direct call: the observed value
    vout       \* direct call: what the closure returned

vars == <<pc, catalog, allTests, idx, result, err, ret, calls, invoked, logs,
          setups, vfn, vobs, vout>>

Unset == [t |-> "unset", v |-> ""]
vvars == <<vfn, vobs, vout>>

Init ==
    /\ pc = "args"
    /\ catalog \in Catalogs
    /\ allTests = <<>>
    /\ idx = 1
    /\ result = Nil
    /\ err = Nil
    /\ ret = Unset
    /\ calls = <<>>
    /\ invoked = <<>>
    /\ logs = <<>>
    /\ setups = 0
    /\ vfn = MkChain(<<>>)
    /\ vobs = Nil
    /\ vout = Unset

\* ---- RPCFuzzCmd.Args --------------------------------------------------------
Args ==
    /\ pc = "args"
    /\ \E n \in 0..MaxArgs, keyOk \in BOOLEAN :
         IF n # 1
         THEN /\ ret' = Errorf("Expected 1 argument, but got %d", n, "")
              /\ pc' = "done"
         ELSE IF ~keyOk
         THEN /\ ret' = [t |-> "*errors.errorString", v |-> "invalid hex data for private key"]
              /\ pc' = "done"
         ELSE /\ ret' = ret
              /\ pc' = "run"
    /\ UNCHANGED <<catalog, allTests, idx, result, err, calls, invoked, logs, setups>>
    /\ UNCHANGED vvars

\* ---- RPCFuzzCmd.RunE --------------------------------------------------------
\* rpc.DialContext and the early return
Dial ==
    /\ pc = "run"
    /\ \E e \in {Nil, ErrOpaque} :
         /\ err' = e
         /\ IF e # Nil
            THEN ret' = e /\ pc' = "done"
            ELSE ret' = ret /\ pc' = "setup"
    /\ UNCHANGED <<catalog, allTests, idx, result, calls, invoked, logs, setups>>
    /\ UNCHANGED vvars

\* a setup that can run again in the middle of the loop
setupTestsAgain ==
    /\ pc \in {"setup", "loop"}
    /\ setups < 2
    /\ allTests' = allTests \o catalog
    /\ setups' = setups + 1
    /\ pc' = "loop"
    /\ UNCHANGED <<catalog, idx, result, err, ret, calls, invoked, logs>>
    /\ UNCHANGED vvars

setupTests ==
    /\ pc = "setup"
    /\ allTests' = allTests \o catalog
    /\ setups' = setups + 1
    /\ pc' = "loop"
    /\ UNCHANGED <<catalog, idx, result, err, ret, calls, invoked, logs>>
    /\ UNCHANGED vvars

\* result and err after the call when err keeps its old value on success
AfterCallStale(o, prevErr) ==
    [result |-> o.result, err |-> IF o.err = Nil THEN prevErr ELSE o.err]

\* var result interface{}; err = rpcClient.CallContext(cxt, &result, ...)
AfterCall(o, prevErr) ==
    [result |-> o.result, err |-> o.err]

Call ==
    /\ pc = "loop"
    /\ idx <= Len(allTests)
    /\ \E o \in CallReturns :
         LET t == allTests[idx]
             a == AfterCall(o, err)
         IN  /\ result' = a.result
             /\ err' = a.err
             /\ calls' = Append(calls, [idx |-> idx, method |-> GetMethod(t),
                                        args |-> GetArgs(t), returned |-> o])
    /\ pc' = "called"
    /\ UNCHANGED <<catalog, allTests, idx, ret, invoked, logs, setups>>
    /\ UNCHANGED vvars

\* a guard with the negation dropped
CallFailedInverted(t, e) == e # Nil /\ ExpectError(t)

\* a guard that also treats a missing error as a failed call
CallFailedStrict(t, e) == (e # Nil) # ExpectError(t)

\* if err != nil && !t.ExpectError()
CallFailed(t, e) == e # Nil /\ ~ExpectError(t)

LogLine(i, t, msg, e) == [idx |-> i, method |-> GetMethod(t), msg |-> msg, err |-> e]

CheckCallErr ==
    /\ pc = "called"
    /\ LET t == allTests[idx]
       IN  IF CallFailed(t, err)
           THEN /\ logs' = Append(logs, LogLine(idx, t, "Method test failed", err))
                /\ idx' = idx + 1
                /\ pc' = "loop"
           ELSE /\ logs' = logs
                /\ idx' = idx
                /\ pc' = "validate"
    /\ UNCHANGED <<catalog, allTests, result, err, ret, calls, invoked, setups>>
    /\ UNCHANGED vvars

\* a selection that always hands over the decoded result
ObservedResult(t, res, e) == res

\* if t.ExpectError() { t.Validate(err) } else { t.Validate(result) }
Observed(t, res, e) == IF ExpectError(t) THEN e ELSE res

DoValidate ==
    /\ pc = "validate"
    /\ LET t == allTests[idx]
           o == Observed(t, result, err)
           r == Validate(t, o)
       IN  /\ err' = r.err
           /\ invoked' = Append(invoked, [idx |-> idx, observed |-> o,
                                          trace |-> r.trace, err |-> r.err])
    /\ pc' = "report"
    /\ UNCHANGED <<catalog, allTests, idx, result, ret, calls, logs, setups>>
    /\ UNCHANGED vvars

Report ==
    /\ pc = "report"
    /\ LET t == allTests[idx]
       IN  logs' = Append(logs,
                IF err # Nil
                THEN LogLine(idx, t, "Failed to validate", err)
                ELSE LogLine(idx, t, "Successfully validated", Nil))
    /\ idx' = idx + 1
    /\ pc' = "loop"
    /\ UNCHANGED <<catalog, allTests, result, err, ret, calls, invoked, setups>>
    /\ UNCHANGED vvars

\* a run that returns the last error it saw
ReturnLastErr ==
    /\ pc = "loop"
    /\ idx > Len(allTests)
    /\ ret' = err
    /\ pc' = "done"
    /\ UNCHANGED <<catalog, allTests, idx, result, err, calls, invoked, logs, setups>>
    /\ UNCHANGED vvars

\* return nil after the loop
Return ==
    /\ pc = "loop"
    /\ idx > Len(allTests)
    /\ ret' = Nil
    /\ pc' = "done"
    /\ UNCHANGED <<catalog, allTests, idx, result, err, calls, invoked, logs, setups>>
    /\ UNCHANGED vvars

Next ==
    \/ Args
    \/ Dial
    \/ setupTests
    \/ Call
    \/ CheckCallErr
    \/ DoValidate
    \/ Report
    \/ Return

Spec == Init /\ [][Next]_vars

\* every step of Args and RunE is taken once it is enabled: the command runs to
\* completion provided every RPC call returns
FairSpec == Spec /\ WF_vars(Next)

\* ---- a validator closure called directly ------------------------------------
Strategies ==
    {MkExact(e) : e \in {BoolTrue, BoolFalse, Nil, StrTrue}} \cup
    {MkRegexString(ReHex), MkError(ReHexMsg)} \cup
    {MkJSONSchema(s) : s \in {SchemaBoolean, SchemaObject, SchemaMalformed}}

Validators == Strategies \cup {MkChain(q) : q \in SeqsUpTo(Strategies, MaxChain)}

ValidatorInit ==
    /\ pc = "vcall"
    /\ vfn \in Validators
    /\ vobs \in Values
    /\ vout = Unset
    /\ catalog = <<>>
    /\ allTests = <<>>
    /\ idx = 1
    /\ result = Nil
    /\ err = Nil
    /\ ret = Unset
    /\ calls = <<>>
    /\ invoked = <<>>
    /\ logs = <<>>
    /\ setups = 0

InvokeValidator ==
    /\ pc = "vcall"
    /\ vout' = CallValidator(vfn, vobs)
    /\ pc' = "vreturn"
    /\ UNCHANGED <<catalog, allTests, idx, result, err, ret, calls, invoked, logs,
                   setups, vfn, vobs>>

ValidatorNext == InvokeValidator

ValidatorSpec == ValidatorInit /\ [][ValidatorNext]_vars

\* ==== properties ================================================================
LogsFor(i)    == {k \in DOMAIN logs : logs[k].idx = i}
InvokedFor(i) == {k \in DOMAIN invoked : invoked[k].idx = i}
\* case i has been left behind by the loop
Passed(i)     == idx > i \/ pc = "done"

CallFailure       == "Method test failed"
ValidationFailure == "Failed to validate"
Success           == "Successfully validated"

\* the calls made for a case that expects an error and got a result instead
ResultInsteadOfError ==
    {k \in DOMAIN calls : ExpectError(allTests[k]) /\ calls[k].returned.err = Nil}

\* C1 as stated: a case with expectError=true whose call returns a normal
\* result is recorded as a call failure and its validator is never invoked.
C1_CallFailureNoValidator ==
    \A k \in ResultInsteadOfError :
        /\ InvokedFor(k) = {}
        /\ \A l \in LogsFor(k) : logs[l].msg = CallFailure

\* C1 amended: such a case is never recorded as a call failure; its validator
\* is invoked once, on the nil error and not on the result, and the case is
\* recorded as a validation failure when the validator rejects nil (which an
\* error-regex validator always does) and as a success otherwise.
C1_ValidatorRunsOnNilError ==
    \A k \in ResultInsteadOfError :
        /\ \A l \in LogsFor(k) :
              /\ logs[l].msg # CallFailure
              /\ Cardinality(InvokedFor(k)) = 1
              /\ \A n \in InvokedFor(k) :
                    logs[l].msg = IF invoked[n].err # Nil THEN ValidationFailure
                                  ELSE Success
              /\ allTests[k].Validator.kind = "ValidateError"
                    => logs[l].msg = ValidationFailure
        /\ \A n \in InvokedFor(k) : invoked[n].observed = Nil
        /\ Passed(k) => LogsFor(k) # {}

C1_Witness ==
    \E k \in ResultInsteadOfError :
        /\ calls[k].returned.result = BoolTrue
        /\ allTests[k].Validator.kind = "ValidateError"
        /\ \E l \in LogsFor(k) : logs[l].msg = ValidationFailure

\* the calls that failed for a case that expects a result
UnexpectedError ==
    {k \in DOMAIN calls : ~ExpectError(allTests[k]) /\ calls[k].returned.err # Nil}

\* C2: when the call of a case with ExpectError() false returns an error, the
\* engine logs "Method test failed" for it, never invokes its validator, and
\* goes on to the next case.
C2_UnexpectedErrorSkipsValidation ==
    \A k \in UnexpectedError :
        /\ InvokedFor(k) = {}
        /\ \A l \in LogsFor(k) :
              /\ logs[l].msg = CallFailure
              /\ logs[l].err = calls[k].returned.err
              /\ Passed(k)
        /\ Passed(k) => Cardinality(LogsFor(k)) = 1
        /\ (pc = "loop" /\ LogsFor(k) # {} /\ k = Len(calls)) => idx = k + 1
        /\ ret \in {Unset, Nil}

C2_Witness ==
    \E k \in UnexpectedError :
        /\ LogsFor(k) # {}
        /\ k < Len(calls)

\* the verdict a case earns from its own call outcome and validator alone
OwnVerdict(t, o) ==
    IF o.err # Nil /\ ~t.IsError THEN CallFailure
    ELSE IF CallValidator(t.Validator, IF t.IsError THEN o.err ELSE o.result).err # Nil
    THEN ValidationFailure
    ELSE Success

\* C3: one RPC call per case in registry order, one verdict per case in the
\* same order, and the verdict of a case is determined by that case's own call
\* outcome and validator, whatever happened to the cases before it.
C3_OneCallOneVerdictInOrder ==
    /\ Len(calls) <= Len(allTests)
    /\ Len(logs) <= Len(calls)
    /\ Len(calls) <= Len(logs) + 1
    /\ \A k \in DOMAIN calls :
          /\ calls[k].idx = k
          /\ calls[k].method = allTests[k].Method
          /\ calls[k].args = allTests[k].Args
    /\ \A k \in DOMAIN logs :
          /\ logs[k].idx = k
          /\ logs[k].method = allTests[k].Method
          /\ logs[k].msg \in {Success, CallFailure, ValidationFailure}
          /\ logs[k].msg = OwnVerdict(allTests[k], calls[k].returned)
    /\ \A i, j \in DOMAIN logs :
          (allTests[i] = allTests[j] /\ calls[i].returned = calls[j].returned)
              => logs[i].msg = logs[j].msg /\ logs[i].err = logs[j].err
    /\ (pc = "done" /\ ret = Nil) =>
          Len(calls) = Len(allTests) /\ Len(logs) = Len(allTests)

C3_Witness ==
    /\ pc = "done"
    /\ Len(logs) = 2
    /\ logs[1].msg = CallFailure
    /\ logs[2].msg = Success
    /\ allTests[1] = allTests[2]

\* C6: a run over a finite registry ends; it returns nil whatever the verdicts
\* were, having processed every case; an error is returned only by the setup
\* (argument count, private key, dial), and then no case has been run.
SetupErrors ==
    {Errorf("Expected 1 argument, but got %d", n, "") : n \in 0..MaxArgs} \cup
    {[t |-> "*errors.errorString", v |-> "invalid hex data for private key"], ErrOpaque}

C6_RunEndsWithNil ==
    /\ <>(pc = "done")
    /\ [](pc = "done" =>
            IF setups = 1
            THEN /\ ret = Nil
                 /\ Len(calls) = Len(allTests)
                 /\ Len(logs) = Len(allTests)
            ELSE /\ ret \in SetupErrors
                 /\ calls = <<>> /\ invoked = <<>> /\ logs = <<>>)

C6_Witness ==
    /\ pc = "done"
    /\ ret = Nil
    /\ Len(logs) = 2
    /\ logs[1].msg = CallFailure
    /\ logs[2].msg = ValidationFailure

\* the validator calls in which a schema validator could not run
SchemaInternalError ==
    {n \in DOMAIN invoked :
        LET f == allTests[invoked[n].idx].Validator
            m == Marshal(invoked[n].observed)
        IN  /\ f.kind = "ValidateJSONSchema"
            /\ \/ m.err # Nil
               \/ SchemaValidate(f.schema, m.text).err # Nil}

\* C7: a schema validator that cannot marshal the observed value or cannot run
\* the validation returns a failure diagnostic; the case is logged "Failed to
\* validate" with it, the loop goes on and the run does not return the error.
C7_SchemaInternalErrorContained ==
    \A n \in SchemaInternalError :
        /\ invoked[n].err # Nil
        /\ invoked[n].err.v \in {"Unable to marshal result back to json for validation: %w",
                                 "Unable to run json validation: %w"}
        /\ \A l \in LogsFor(invoked[n].idx) :
              logs[l].msg = ValidationFailure /\ logs[l].err = invoked[n].err
        /\ Passed(invoked[n].idx) => LogsFor(invoked[n].idx) # {}
        /\ ret \in {Unset, Nil}
        /\ pc = "done" => Len(logs) = Len(allTests)

C7_Witness ==
    /\ pc = "done"
    /\ \E n \in SchemaInternalError :
          invoked[n].err.v = "Unable to run json validation: %w"
    /\ \E n \in SchemaInternalError :
          invoked[n].err.v = "Unable to marshal result back to json for validation: %w"

\* C8: the registry is built once, before the first call, and is the same from
\* the start of the loop to the end of the run.
InLoop == pc \in {"loop", "called", "validate", "report"}

C8_RegistryReadOnly ==
    /\ [](setups <= 1)
    /\ [](calls # <<>> => setups = 1)
    /\ []((InLoop \/ (pc = "done" /\ setups = 1)) => allTests = catalog)
    /\ [][InLoop => allTests' = allTests]_vars

C8_Witness ==
    /\ pc = "done"
    /\ setups = 1
    /\ Len(calls) = 2
    /\ allTests = catalog

\* C10: the validator of a case with ExpectError() true is handed the call's
\* error value, never the decoded result; the validator of a case with
\* ExpectError() false is handed the decoded result, never an error.
C10_ObservedFollowsExpectError ==
    \A n \in DOMAIN invoked :
        LET k == invoked[n].idx
            t == allTests[k]
            o == calls[k].returned
        IN  IF ExpectError(t)
            THEN /\ invoked[n].observed = o.err
                 /\ invoked[n].observed \in Errors \cup {Nil}
            ELSE /\ invoked[n].observed = o.result
                 /\ o.err = Nil
                 /\ ~IsError(invoked[n].observed)

C10_Witness ==
    /\ \E n \in DOMAIN invoked :
          /\ ExpectError(allTests[invoked[n].idx])
          /\ invoked[n].observed = ErrHex
    /\ \E n \in DOMAIN invoked :
          /\ ~ExpectError(allTests[invoked[n].idx])
          /\ invoked[n].observed = BoolTrue

\* ---- properties of a validator called directly ---------------------------------
Returned == pc = "vreturn"
IsChain  == vfn.kind = "ChainValidator"

\* C4: a chain invokes its members in the order given, and none after the
\* first one that returns nil.
C4_ChainInOrderShortCircuit ==
    (Returned /\ IsChain) =>
        /\ Len(vout.trace) <= Len(vfn.validators)
        /\ \A k \in DOMAIN vout.trace :
              /\ vout.trace[k].member = k
              /\ k < Len(vout.trace) => vout.trace[k].err # Nil
        /\ \A k \in DOMAIN vfn.validators :
              (\E j \in 1..(k - 1) : CallStrategy(vfn.validators[j], vobs) = Nil)
                  => k \notin {vout.trace[m].member : m \in DOMAIN vout.trace}

C4_Witness ==
    /\ Returned /\ IsChain
    /\ Len(vfn.validators) = 2
    /\ Len(vout.trace) = 1
    /\ vout.trace[1].err = Nil

\* C5: a chain of one or more validators returns nil exactly when some member
\* returns nil on the observed value; otherwise it returns the one generic
\* "All Validation failed" error, whatever the members returned.
C5_ChainAnyOf ==
    (Returned /\ IsChain /\ Len(vfn.validators) >= 1) =>
        /\ vout.err = Nil <=>
              \E k \in DOMAIN vfn.validators : CallStrategy(vfn.validators[k], vobs) = Nil
        /\ vout.err # Nil => vout.err = Errorf("All Validation failed", "", "")

C5_Witness ==
    /\ Returned /\ IsChain
    /\ Len(vfn.validators) = 2
    /\ vout.err = Errorf("All Validation failed", "", "")
    /\ vout.trace[1].err # vout.trace[2].err

\* C9: an exact validator returns nil exactly when the observed value has the
\* type and the value of the expected one; ValidateExact(true) accepts true
\* and rejects false and every non-boolean with a diagnostic naming both.
C9_ExactSameTypeSameValue ==
    (Returned /\ vfn.kind = "ValidateExact") =>
        /\ vout.err = Nil <=> (vobs.t = vfn.expected.t /\ vobs.v = vfn.expected.v)
        /\ vfn.expected = BoolTrue =>
              /\ vobs = BoolTrue => vout.err = Nil
              /\ (vobs = BoolFalse \/ vobs.t # "bool") =>
                    /\ vout.err # Nil
                    /\ vout.err.a = "true"
                    /\ vout.err.b = vobs.v

C9_Witness ==
    /\ Returned
    /\ vfn = MkExact(BoolTrue)
    /\ vobs = StrTrue
    /\ vout.err # Nil

====
